---- MODULE Spec2Model ----
(***************************************************************************)
(* Gesture classification and debouncing of the virtual keyboard           *)
(* (src/index.js): onResults classifies the finger state of each frame,    *)
(* counts how long the classification has been stable and performs the     *)
(* action once it is stable and the cooldown has passed.                    *)
(***************************************************************************)
EXTENDS Integers, Sequences, FiniteSets, TLC

VARIABLES
    prevDetectedGesture,  \* index.js:31
    stableCount,          \* index.js:32
    lastActionTime,       \* index.js:34
    output,               \* output.value, the text area (index.js:13)
    clock,                \* what Date.now() returns at this moment, in ms
    frame,                \* kind of the last frame processed: "none" before the first
    handLandmarks,        \* results.multiHandLandmarks[0] of the last hand frame
    fingers,              \* indexUp/middleUp/ringUp/pinkyUp of the last hand frame
    gesture,              \* local `gesture` of the last frame (Null on a no-hand frame)
    now,                  \* const now = Date.now() of the last hand frame (index.js:208)
    emitted,              \* argument of performAction in the last frame, or NoAction
    actions,              \* history: every performAction call, as [action, at]
    sameRun,              \* history: length of the run of identical frames ending now
    sinceEmit,            \* history: frames processed after the last performAction
    pos,                  \* history: frames processed while a scenario still matches
    live,                 \* history: scenarios the frames so far are a prefix of
    refCandidate,         \* reference machine: candidate, EmptyCandidate or NoneGesture
    refCount,             \* reference machine: consecutive count
    refLast,              \* reference machine: clock reading of its last action
    refEmitted,           \* reference machine: action of the last frame, or NoAction
    ui,                   \* statusEl, detectedEl, commandEl and the legend (index.js:12-27)
    timers                \* pending setTimeout callbacks, as [callback, due]

vars == <<prevDetectedGesture, stableCount, lastActionTime, output, clock,
          frame, handLandmarks, fingers, gesture, now, emitted, actions, sameRun,
          sinceEmit, pos, live, refCandidate, refCount, refLast, refEmitted,
          ui, timers>>

-----------------------------------------------------------------------------
(* Constants of the program *)

REQUIRED_CONSECUTIVE == 4

ACTION_COOLDOWN == 800

\* JavaScript null: `gesture` when no branch of the chain matches, and the
\* reset value of prevDetectedGesture.
Null == "null"

Letters == {"A", "B", "C", "D", "E", "F", "G", "H", "I", "J"}

Gestures == {"SPACE", "BACKSPACE"} \cup Letters

\* `emitted` of a frame that does not call performAction.
NoAction == "NOACTION"

Min(a, b) == IF a < b THEN a ELSE b

-----------------------------------------------------------------------------
(* Bounds of the model *)

\* The clock runs from 0 to MaxTicks * 100 ms in steps of 100 ms.
MaxTicks == 18

\* No run of identical frames is longer than this.
MaxRun == 8

\* SpecHold: the clock runs from 0 to HoldTicks * 100 ms, and two frames of the
\* held hand are at most MaxGapTicks ticks apart.
HoldTicks == 30
MaxGapTicks == 2

\* SpecUI: Enter is pressed only while the text is shorter than MaxText.
MaxText == 2

-----------------------------------------------------------------------------
(* Landmarks and finger states *)

Tips == {8, 12, 16, 20}

Pips == {6, 10, 14, 18}

\* A landmark frame, as far as onResults reads it: the y coordinate of each tip
\* and pip landmark, on a grid of two levels (0 is higher on screen than 1).
LandmarkFrames == [Tips \cup Pips -> {0, 1}]

\* The frame with every landmark on the lower level.
Flat == [i \in Tips \cup Pips |-> 1]

fingerIsUp(landmarks, tipIndex, pipIndex) == landmarks[tipIndex] < landmarks[pipIndex]

FingerState(landmarks) ==
    [indexUp  |-> fingerIsUp(landmarks, 8, 6),
     middleUp |-> fingerIsUp(landmarks, 12, 10),
     ringUp   |-> fingerIsUp(landmarks, 16, 14),
     pinkyUp  |-> fingerIsUp(landmarks, 20, 18)]

FingerStates == [indexUp : BOOLEAN, middleUp : BOOLEAN, ringUp : BOOLEAN, pinkyUp : BOOLEAN]

AllDown == [indexUp |-> FALSE, middleUp |-> FALSE, ringUp |-> FALSE, pinkyUp |-> FALSE]

AllUp == [indexUp |-> TRUE, middleUp |-> TRUE, ringUp |-> TRUE, pinkyUp |-> TRUE]

IndexOnly == [indexUp |-> TRUE, middleUp |-> FALSE, ringUp |-> FALSE, pinkyUp |-> FALSE]

IndexMiddle == [indexUp |-> TRUE, middleUp |-> TRUE, ringUp |-> FALSE, pinkyUp |-> FALSE]

IndexPinky == [indexUp |-> TRUE, middleUp |-> FALSE, ringUp |-> FALSE, pinkyUp |-> TRUE]

\* A hand in finger state f: every pip on the lower level, the tip of a raised
\* finger above its pip and the tip of a lowered finger level with it.
PoseOf(f) ==
    [i \in Tips \cup Pips |->
        IF \/ i = 8 /\ f.indexUp
           \/ i = 12 /\ f.middleUp
           \/ i = 16 /\ f.ringUp
           \/ i = 20 /\ f.pinkyUp
        THEN 0 ELSE 1]

\* The hands the debouncer is run on: open palm, fist, two letters and an
\* unmapped combination.
Poses == {PoseOf(f) : f \in {AllUp, AllDown, IndexOnly, IndexMiddle, IndexPinky}}

\* The chain with the tests for D and C in the other order.
GestureOfCBeforeD(indexUp, middleUp, ringUp, pinkyUp) ==
    LET anyFingerUp == indexUp \/ middleUp \/ ringUp \/ pinkyUp IN
    IF indexUp /\ middleUp /\ ringUp /\ pinkyUp THEN "SPACE"
    ELSE IF ~anyFingerUp THEN "BACKSPACE"
    ELSE IF indexUp /\ middleUp /\ ringUp THEN "C"
    ELSE IF indexUp /\ middleUp /\ ringUp /\ ~pinkyUp THEN "D"
    ELSE IF middleUp /\ ringUp /\ pinkyUp THEN "F"
    ELSE IF indexUp /\ middleUp /\ ~ringUp /\ ~pinkyUp THEN "B"
    ELSE IF indexUp /\ ringUp /\ ~middleUp /\ ~pinkyUp THEN "E"
    ELSE IF middleUp /\ ringUp /\ ~indexUp /\ ~pinkyUp THEN "G"
    ELSE IF indexUp /\ ~middleUp /\ ~ringUp /\ ~pinkyUp THEN "A"
    ELSE IF middleUp /\ ~indexUp /\ ~ringUp /\ ~pinkyUp THEN "H"
    ELSE IF ringUp /\ ~indexUp /\ ~middleUp /\ ~pinkyUp THEN "I"
    ELSE IF pinkyUp /\ ~indexUp /\ ~middleUp /\ ~ringUp THEN "J"
    ELSE Null

\* The if / else-if chain of onResults, `gesture` starting as null.
GestureOf(indexUp, middleUp, ringUp, pinkyUp) ==
    LET anyFingerUp == indexUp \/ middleUp \/ ringUp \/ pinkyUp IN
    IF indexUp /\ middleUp /\ ringUp /\ pinkyUp THEN "SPACE"
    ELSE IF ~anyFingerUp THEN "BACKSPACE"
    ELSE IF indexUp /\ middleUp /\ ringUp /\ ~pinkyUp THEN "D"
    ELSE IF indexUp /\ middleUp /\ ringUp THEN "C"
    ELSE IF middleUp /\ ringUp /\ pinkyUp THEN "F"
    ELSE IF indexUp /\ middleUp /\ ~ringUp /\ ~pinkyUp THEN "B"
    ELSE IF indexUp /\ ringUp /\ ~middleUp /\ ~pinkyUp THEN "E"
    ELSE IF middleUp /\ ringUp /\ ~indexUp /\ ~pinkyUp THEN "G"
    ELSE IF indexUp /\ ~middleUp /\ ~ringUp /\ ~pinkyUp THEN "A"
    ELSE IF middleUp /\ ~indexUp /\ ~ringUp /\ ~pinkyUp THEN "H"
    ELSE IF ringUp /\ ~indexUp /\ ~middleUp /\ ~pinkyUp THEN "I"
    ELSE IF pinkyUp /\ ~indexUp /\ ~middleUp /\ ~ringUp THEN "J"
    ELSE Null

-----------------------------------------------------------------------------
(* Debouncing *)

\* The update with the else branch counting on instead of starting again.
StableNoRestart(g, prev, count) ==
    [prev |-> g, count |-> count + 1]

\* The update with the then branch leaving the count as it is.
StableNoIncrement(g, prev, count) ==
    IF g = prev THEN [prev |-> prev, count |-> count]
                ELSE [prev |-> g, count |-> 1]

\* The comparison with a null candidate never matching.
StableNullIsEmpty(g, prev, count) ==
    IF g = prev /\ prev # Null THEN [prev |-> prev, count |-> count + 1]
    ELSE [prev |-> g, count |-> 1]

\* if (gesture === prevDetectedGesture) stableCount++ else { stableCount = 1; ... }
Stable(g, prev, count) ==
    IF g = prev THEN [prev |-> prev, count |-> count + 1]
                ELSE [prev |-> g, count |-> 1]

\* The test with >= for the cooldown.
ShouldActAtCooldown(g, count, t, last) ==
    g # Null /\ count >= REQUIRED_CONSECUTIVE /\ (t - last) >= ACTION_COOLDOWN

\* The test without `gesture &&`.
ShouldActOnNull(g, count, t, last) ==
    count >= REQUIRED_CONSECUTIVE /\ (t - last) > ACTION_COOLDOWN

\* The test without the cooldown.
ShouldActNoCooldown(g, count, t, last) ==
    g # Null /\ count >= REQUIRED_CONSECUTIVE

\* The test with the count compared by equality.
ShouldActExactCount(g, count, t, last) ==
    g # Null /\ count = REQUIRED_CONSECUTIVE /\ (t - last) > ACTION_COOLDOWN

\* gesture && stableCount >= REQUIRED_CONSECUTIVE && (now - lastActionTime) > ACTION_COOLDOWN
ShouldAct(g, count, t, last) ==
    g # Null /\ count >= REQUIRED_CONSECUTIVE /\ (t - last) > ACTION_COOLDOWN

\* The assignments after performAction without the reset of the count.
AfterActionNoReset(g, count, t) ==
    [prev |-> g, count |-> count, last |-> t]

\* The assignments after performAction with the count set to 1 and the candidate kept.
AfterActionCountOne(g, count, t) ==
    [prev |-> g, count |-> 1, last |-> t]

\* The assignments after performAction without prevDetectedGesture = null.
AfterActionKeepCandidate(g, count, t) ==
    [prev |-> g, count |-> 0, last |-> t]

\* lastActionTime = now; prevDetectedGesture = null; stableCount = 0
AfterAction(g, count, t) ==
    [prev |-> Null, count |-> 0, last |-> t]

\* The no-hand branch leaving the debounce state as it is.
NoHandKeep(prev, count) ==
    [prev |-> prev, count |-> count]

\* The no-hand branch without prevDetectedGesture = null.
NoHandResetCountOnly(prev, count) ==
    [prev |-> prev, count |-> 0]

\* prevDetectedGesture = null; stableCount = 0 of the no-hand branch
NoHandReset(prev, count) ==
    [prev |-> Null, count |-> 0]

\* output.value.slice(0, -1)
SliceOffLast(value) ==
    IF Len(value) = 0 THEN <<>> ELSE SubSeq(value, 1, Len(value) - 1)

\* performAction without the SPACE case.
performActionSpaceAsWord(value, action) ==
    IF action = "BACKSPACE" THEN SliceOffLast(value)
    ELSE Append(value, action)

\* What performAction leaves in output.value.
performAction(value, action) ==
    IF action = "SPACE" THEN Append(value, " ")
    ELSE IF action = "BACKSPACE" THEN SliceOffLast(value)
    ELSE Append(value, action)

-----------------------------------------------------------------------------
(* The page: status line, detected gesture, executed command, legend, timers *)

Dash == "-"

\* The elements before the first frame: no class on statusEl, nothing active.
InitialUI ==
    [status |-> "", handDetected |-> FALSE, detected |-> Dash, command |-> Dash,
     transform |-> "none", legend |-> Null]

\* The no-hand branch of onResults on the page.
NoHandUI(u) ==
    [u EXCEPT !.status = "No hand detected", !.handDetected = FALSE,
              !.detected = Dash, !.command = Dash, !.legend = Null]

\* A hand frame of onResults on the page, before any performAction.
HandUI(u, g) ==
    [u EXCEPT !.status = "Hand detected", !.handDetected = TRUE,
              !.detected = IF g = Null THEN Dash ELSE g, !.legend = g]

\* What performAction leaves on the page.
performActionUI(u, action) ==
    [u EXCEPT !.command = action, !.transform = "scale(1.1)", !.legend = action,
              !.status = action \o " -> applied"]

\* The three setTimeout calls of performAction, made at clock reading t.
performActionTimers(t) ==
    {[callback |-> "scale", due |-> t + 200],
     [callback |-> "legend", due |-> t + 700],
     [callback |-> "status", due |-> t + 700]}

-----------------------------------------------------------------------------
(* Scenarios: frame sequences sent from startup, followed by `live` and `pos` *)

Times == {100 * k : k \in 0..MaxTicks}

AnyGesture == "ANY"

Entry(hand, g, fs, at) == [hand |-> hand, gesture |-> g, fingers |-> fs, at |-> at]

HandOf(g) == Entry(TRUE, g, FingerStates, Times)

IndexUpFrame == Entry(TRUE, AnyGesture, {IndexOnly}, Times)

NoHandFrame == Entry(FALSE, AnyGesture, {}, Times)

FistAt(t) == Entry(TRUE, AnyGesture, {AllDown}, {t})

ScenarioNames ==
    {<<"same", g, g>> : g \in Gestures}
    \cup {n \in {<<"other", g, h>> : g \in Gestures, h \in Gestures \cup {Null}} :
             n[2] # n[3]}
    \cup {<<"fists", "", "">>, <<"index", "", "">>}

Scenario(name) ==
    CASE name[1] = "same" ->
           [i \in 1..REQUIRED_CONSECUTIVE |-> HandOf(name[2])]
      [] name[1] = "other" ->
           [i \in 1..REQUIRED_CONSECUTIVE |->
              IF i < REQUIRED_CONSECUTIVE THEN HandOf(name[2]) ELSE HandOf(name[3])]
      [] name[1] = "fists" ->
           <<FistAt(0), FistAt(100), FistAt(200), FistAt(300)>>
      [] name[1] = "index" ->
           <<IndexUpFrame, IndexUpFrame, IndexUpFrame, IndexUpFrame, NoHandFrame,
             IndexUpFrame, IndexUpFrame, IndexUpFrame, IndexUpFrame>>

Matches(e, kind, f, g, t) ==
    /\ e.hand = (kind = "hand")
    /\ e.hand => (e.gesture \in {AnyGesture, g} /\ f \in e.fingers)
    /\ t \in e.at

-----------------------------------------------------------------------------
(* The reference machine: the debouncer with an empty candidate that is not
   the NONE gesture, kept beside the program and fed the same frames *)

EmptyCandidate == "EMPTY"

NoneGesture == "NONE"

\* The gesture of a hand frame as the reference machine names it.
RefGesture(g) == IF g = Null THEN NoneGesture ELSE g

\* One frame of the reference machine, read at clock reading t.
RefStep(kind, g, t) ==
    IF kind = "nohand"
    THEN /\ refCandidate' = EmptyCandidate
         /\ refCount' = 0
         /\ refEmitted' = NoAction
         /\ UNCHANGED refLast
    ELSE LET c == IF RefGesture(g) = refCandidate THEN refCount + 1 ELSE 1 IN
         IF /\ RefGesture(g) # NoneGesture
            /\ c >= REQUIRED_CONSECUTIVE
            /\ t - refLast > ACTION_COOLDOWN
         THEN /\ refEmitted' = RefGesture(g)
              /\ refLast' = t
              /\ refCandidate' = EmptyCandidate
              /\ refCount' = 0
         ELSE /\ refEmitted' = NoAction
              /\ refCandidate' = RefGesture(g)
              /\ refCount' = c
              /\ UNCHANGED refLast

-----------------------------------------------------------------------------
(* The program *)

Init ==
    /\ prevDetectedGesture = Null
    /\ stableCount = 0
    /\ lastActionTime = 0
    /\ output = <<>>
    /\ clock = 0
    /\ frame = "none"
    /\ handLandmarks = Flat
    /\ fingers = AllDown
    /\ gesture = Null
    /\ now = 0
    /\ emitted = NoAction
    /\ actions = <<>>
    /\ sameRun = 0
    /\ sinceEmit = 0
    /\ pos = 0
    /\ live = ScenarioNames
    /\ refCandidate = EmptyCandidate
    /\ refCount = 0
    /\ refLast = 0
    /\ refEmitted = NoAction
    /\ ui = InitialUI
    /\ timers = {}

\* What the history variables record of a frame processed at clock reading t.
Observe(kind, lm, f, g, act, t) ==
    /\ frame' = kind
    /\ handLandmarks' = lm
    /\ fingers' = f
    /\ gesture' = g
    /\ emitted' = act
    /\ actions' = IF act = NoAction THEN actions
                  ELSE Append(actions, [action |-> act, at |-> t])
    /\ sameRun' = IF kind = frame /\ g = gesture THEN sameRun + 1 ELSE 1
    /\ sinceEmit' = IF act = NoAction THEN Min(sinceEmit + 1, MaxRun) ELSE 0
    /\ live' = {n \in live : /\ pos < Len(Scenario(n))
                             /\ Matches(Scenario(n)[pos + 1], kind, f, g, t)}
    /\ pos' = IF live' = {} THEN 0 ELSE pos + 1
    /\ RefStep(kind, g, t)

\* One call of the results callback; Date.now() returns `clock`.
onResults(results) ==
    IF Len(results.multiHandLandmarks) = 0
    THEN LET r == NoHandReset(prevDetectedGesture, stableCount) IN
         /\ prevDetectedGesture' = r.prev
         /\ stableCount' = r.count
         /\ ui' = NoHandUI(ui)
         /\ UNCHANGED <<lastActionTime, output, clock, now, timers>>
         /\ Observe("nohand", Flat, AllDown, Null, NoAction, clock)
    ELSE LET lm == results.multiHandLandmarks[1]
             f == FingerState(lm)
             g == GestureOf(f.indexUp, f.middleUp, f.ringUp, f.pinkyUp)
             s == Stable(g, prevDetectedGesture, stableCount)
         IN  /\ now' = clock
             /\ IF ShouldAct(g, s.count, now', lastActionTime)
                THEN LET a == AfterAction(s.prev, s.count, now') IN
                  /\ output' = performAction(output, g)
                  /\ ui' = performActionUI(HandUI(ui, g), g)
                  /\ timers' = timers \cup performActionTimers(clock)
                  /\ lastActionTime' = a.last
                  /\ prevDetectedGesture' = a.prev
                  /\ stableCount' = a.count
                  /\ UNCHANGED clock
                  /\ Observe("hand", lm, f, g, g, now')
                ELSE
                  /\ prevDetectedGesture' = s.prev
                  /\ stableCount' = s.count
                  /\ ui' = HandUI(ui, g)
                  /\ UNCHANGED <<lastActionTime, output, clock, timers>>
                  /\ Observe("hand", lm, f, g, NoAction, now')

\* The frames of the specifications below, but for SpecHold, stop a run of
\* identical frames at MaxRun.
RunBounded == sameRun' <= MaxRun

HandFrame == \E lm \in Poses : onResults([multiHandLandmarks |-> <<lm>>]) /\ RunBounded

\* A hand frame with any landmarks of the grid.
AnyHandFrame == \E lm \in LandmarkFrames : onResults([multiHandLandmarks |-> <<lm>>]) /\ RunBounded

NoHand == onResults([multiHandLandmarks |-> <<>>]) /\ RunBounded

\* Time passes between two frames.
Tick ==
    /\ clock < MaxTicks * 100
    /\ clock' = clock + 100
    /\ UNCHANGED <<prevDetectedGesture, stableCount, lastActionTime, output,
                   frame, handLandmarks, fingers, gesture, now, emitted, actions,
                   sameRun, sinceEmit,
                   pos, live, refCandidate, refCount, refLast, refEmitted,
                   ui, timers>>

Next == HandFrame \/ NoHand \/ Tick

Spec == Init /\ [][Next]_vars

\* The classification alone: hand frames over the whole landmark grid.
SpecClassify == Init /\ [][AnyHandFrame]_vars

\* The page started when Date.now() is already past the first cooldown.
InitLate ==
    /\ prevDetectedGesture = Null
    /\ stableCount = 0
    /\ lastActionTime = 0
    /\ output = <<>>
    /\ clock = ACTION_COOLDOWN + 100
    /\ frame = "none"
    /\ handLandmarks = Flat
    /\ fingers = AllDown
    /\ gesture = Null
    /\ now = 0
    /\ emitted = NoAction
    /\ actions = <<>>
    /\ sameRun = 0
    /\ sinceEmit = 0
    /\ pos = 0
    /\ live = ScenarioNames
    /\ refCandidate = EmptyCandidate
    /\ refCount = 0
    /\ refLast = 0
    /\ refEmitted = NoAction
    /\ ui = InitialUI
    /\ timers = {}

\* One landmark frame for each of the sixteen finger states.
AllPoses == {PoseOf(f) : f \in FingerStates}

\* A hand frame in any of the sixteen finger states.
PoseFrame == \E lm \in AllPoses : onResults([multiHandLandmarks |-> <<lm>>]) /\ RunBounded

\* Every finger state, with the first action of each run.
SpecPoses == InitLate /\ [][PoseFrame \/ NoHand]_vars

\* Everything but the page, the timers and the text area.
debouncerAndHistory ==
    <<prevDetectedGesture, stableCount, lastActionTime, clock,
      frame, handLandmarks, fingers, gesture, now, emitted, actions,
      sameRun, sinceEmit, pos, live, refCandidate, refCount, refLast, refEmitted>>

\* The callback of the 200 ms timer: commandEl.style.transform = 'scale(1)'.
ScaleTimeout ==
    /\ ui' = [ui EXCEPT !.transform = "scale(1)"]
    /\ UNCHANGED <<debouncerAndHistory, output>>

\* The callback of the first 700 ms timer: highlightLegend(null).
LegendTimeout ==
    /\ ui' = [ui EXCEPT !.legend = Null]
    /\ UNCHANGED <<debouncerAndHistory, output>>

\* The status callback, also clearing the count.
StatusTimeoutClearsCount ==
    /\ ui' = [ui EXCEPT !.status = IF ui.handDetected THEN "Hand detected"
                                                     ELSE "No hand detected"]
    /\ stableCount' = 0
    /\ UNCHANGED <<prevDetectedGesture, lastActionTime, clock,
                   frame, handLandmarks, fingers, gesture, now, emitted, actions,
                   sameRun, sinceEmit, pos, live,
                   refCandidate, refCount, refLast, refEmitted, output>>

\* The callback of the second 700 ms timer: the status line back to the
\* text its class stands for.
StatusTimeout ==
    /\ ui' = [ui EXCEPT !.status = IF ui.handDetected THEN "Hand detected"
                                                     ELSE "No hand detected"]
    /\ UNCHANGED <<debouncerAndHistory, output>>

\* A pending timer whose delay has passed runs its callback.
TimerFires ==
    \E tm \in timers :
        /\ clock >= tm.due
        /\ timers' = timers \ {tm}
        /\ \/ tm.callback = "scale" /\ ScaleTimeout
           \/ tm.callback = "legend" /\ LegendTimeout
           \/ tm.callback = "status" /\ StatusTimeout

\* The keydown listener of the text area, for the Enter key.
EnterKey ==
    /\ Len(output) < MaxText
    /\ output' = Append(output, "\n")
    /\ UNCHANGED <<debouncerAndHistory, ui, timers>>

\* The hand frames of SpecUI: the index finger alone.
UIPoses == {PoseOf(IndexOnly)}

UIFrame == \E lm \in UIPoses : onResults([multiHandLandmarks |-> <<lm>>]) /\ RunBounded

\* Frames, clock ticks, timer callbacks and Enter keys in any order.
SpecUI == Init /\ [][UIFrame \/ NoHand \/ Tick \/ TimerFires \/ EnterKey]_vars

\* The camera loop sends the next frame of a hand that stays in one pose with
\* a gesture: at most one frame for each clock reading.
HoldFrame ==
    \E lm \in Poses :
        /\ frame = "none" \/ (lm = handLandmarks /\ now < clock)
        /\ LET f == FingerState(lm) IN
             GestureOf(f.indexUp, f.middleUp, f.ringUp, f.pinkyUp) # Null
        /\ onResults([multiHandLandmarks |-> <<lm>>])

\* Time passes, up to MaxGapTicks ticks between two frames of the camera loop.
HoldTick ==
    /\ clock < HoldTicks * 100
    /\ clock + 100 - now <= MaxGapTicks * 100
    /\ clock' = clock + 100
    /\ UNCHANGED <<prevDetectedGesture, stableCount, lastActionTime, output,
                   frame, handLandmarks, fingers, gesture, now, emitted, actions,
                   sameRun, sinceEmit,
                   pos, live, refCandidate, refCount, refLast, refEmitted,
                   ui, timers>>

\* A hand held in one pose: the camera loop keeps sending frames and the clock
\* keeps advancing, hence the weak fairness of both.
SpecHold ==
    /\ Init /\ [][HoldFrame \/ HoldTick]_vars
    /\ WF_vars(HoldFrame) /\ WF_vars(HoldTick)

-----------------------------------------------------------------------------
(* Vocabulary of the properties *)

\* This step is a call of onResults (time stands still while it runs).
FrameStep == clock' = clock /\ frame' \in {"hand", "nohand"}

\* This step calls performAction.
Emits == Len(actions') = Len(actions) + 1

\* stableCount after lines 201-206 of this step, from the state before it.
CountAfterUpdate == IF gesture' = prevDetectedGesture THEN stableCount + 1 ELSE 1

-----------------------------------------------------------------------------
(* C1 *)

\* C1 (as stated): on every hand frame, an action is emitted if and only if
\* the gesture is not NONE, the updated count is at least REQUIRED_CONSECUTIVE
\* and now - lastActionTime >= ACTION_COOLDOWN; the emitted action is the gesture.
C1_EmitsIffCooldownReached ==
    [][(FrameStep /\ frame' = "hand") =>
          /\ Emits <=> /\ gesture' # Null
                       /\ CountAfterUpdate >= REQUIRED_CONSECUTIVE
                       /\ now' - lastActionTime >= ACTION_COOLDOWN
          /\ Emits => emitted' = gesture']_vars

\* C1 (amended): the same with now - lastActionTime > ACTION_COOLDOWN: a frame
\* exactly ACTION_COOLDOWN after the last action does not emit.
C1_EmitsIffCooldownExceeded ==
    [][(FrameStep /\ frame' = "hand") =>
          /\ Emits <=> /\ gesture' # Null
                       /\ CountAfterUpdate >= REQUIRED_CONSECUTIVE
                       /\ now' - lastActionTime > ACTION_COOLDOWN
          /\ (Emits => emitted' = gesture')
          /\ (~Emits => emitted' = NoAction)]_vars

\* A stable gesture seen exactly ACTION_COOLDOWN after an action, which does
\* not emit, and the same one frame later in time, which does.
C1_Witness ==
    /\ Len(actions) = 1
    /\ frame = "hand" /\ gesture # Null
    /\ stableCount >= REQUIRED_CONSECUTIVE
    /\ now = clock
    /\ now - lastActionTime = ACTION_COOLDOWN
    /\ emitted = NoAction

-----------------------------------------------------------------------------
(* C2 *)

-----------------------------------------------------------------------------
(* C3 *)

\* C3: from the initial state, REQUIRED_CONSECUTIVE - 1 hand frames of one
\* gesture g other than NONE followed by one hand frame of another gesture h
\* emit no action on any of these frames, whatever g, h and the clock readings.
C3_NoActionOnChange ==
    \A n \in live : n[1] = "other" => actions = <<>> /\ emitted = NoAction

\* The four frames have been sent, the last one classified as a gesture other
\* than NONE at a time when the cooldown allows an action.
C3_Witness ==
    /\ \E n \in live : n[1] = "other" /\ n[3] # Null
    /\ pos = REQUIRED_CONSECUTIVE
    /\ now = clock /\ now - lastActionTime > ACTION_COOLDOWN
    /\ stableCount = 1

-----------------------------------------------------------------------------
(* C4 *)

\* C4: once an action has been emitted, a frame emits again only if (i) at
\* least REQUIRED_CONSECUTIVE frames of its gesture, all received after that
\* emission, end with it and (ii) at least ACTION_COOLDOWN has passed since
\* that emission; a frame failing either emits nothing.
C4_NoReemitBeforeRebuildAndCooldown ==
    [][(FrameStep /\ Emits /\ actions # <<>>) =>
          /\ Min(sameRun', sinceEmit + 1) >= REQUIRED_CONSECUTIVE
          /\ now' - actions[Len(actions)].at >= ACTION_COOLDOWN]_vars

\* The same gesture has just been emitted a second time.
C4_Witness ==
    /\ Len(actions) = 2
    /\ actions[1].action = actions[2].action
    /\ emitted = actions[2].action
    /\ sinceEmit = 0 /\ now = actions[2].at

-----------------------------------------------------------------------------
(* C5 *)

\* C5: a no-hand frame emits nothing, sets the candidate to null and the count
\* to 0 and leaves lastActionTime (and the text) alone; the hand frame after it
\* counts from 1, and the count never exceeds the number of identical frames
\* received since the no-hand frame.
C5_NoHandResets ==
    [][FrameStep =>
          /\ frame' = "nohand" =>
                /\ ~Emits /\ emitted' = NoAction
                /\ prevDetectedGesture' = Null /\ stableCount' = 0
                /\ lastActionTime' = lastActionTime /\ output' = output
          /\ (frame = "nohand" /\ frame' = "hand") =>
                stableCount' = 1 /\ prevDetectedGesture' = gesture'
          /\ frame' = "hand" => stableCount' <= sameRun']_vars

\* A no-hand frame has just been processed after four index-up frames that
\* the cooldown kept from emitting (so the count was REQUIRED_CONSECUTIVE).
C5_Witness ==
    /\ <<"index", "", "">> \in live /\ pos = REQUIRED_CONSECUTIVE + 1
    /\ actions = <<>>
    /\ frame = "nohand" /\ stableCount = 0 /\ prevDetectedGesture = Null

-----------------------------------------------------------------------------
(* C6 *)

-----------------------------------------------------------------------------
(* C7 *)

\* C7 (as stated): from the initial state, four index-up frames, a no-hand
\* frame and four index-up frames emit A exactly twice, the second time on the
\* last frame.
C7_IndexNoHandIndexEmitsTwice ==
    (<<"index", "", "">> \in live /\ pos = 9) =>
        /\ Len(actions) = 2
        /\ \A i \in 1..2 : actions[i].action = "A"
        /\ emitted = "A"

\* C7 (amended): in that sequence only the 4th and the 9th frame can emit, each
\* emits A exactly when its clock reading is more than ACTION_COOLDOWN after
\* lastActionTime (0 at first, then the reading of the 4th frame if it emitted):
\* the sequence emits A twice exactly when both tests pass.
C7_EmitsOnFourthAndNinthAfterCooldown ==
    [][(FrameStep /\ <<"index", "", "">> \in live') =>
          /\ Emits <=> /\ pos' \in {REQUIRED_CONSECUTIVE, 2 * REQUIRED_CONSECUTIVE + 1}
                       /\ clock - lastActionTime > ACTION_COOLDOWN
          /\ Emits => emitted' = "A"
          /\ Len(actions') <= 2]_vars

\* The whole sequence has been sent and has emitted A twice.
C7_Witness ==
    /\ <<"index", "", "">> \in live /\ pos = 9
    /\ Len(actions) = 2 /\ emitted = "A"

-----------------------------------------------------------------------------
(* C8 *)

\* The ordered rule list of the classifier: the finger states each rule
\* accepts, and the gesture it gives.
Rules ==
    << [when |-> {f \in FingerStates : f.indexUp /\ f.middleUp /\ f.ringUp /\ f.pinkyUp},
        then |-> "SPACE"],
       [when |-> {f \in FingerStates : ~(f.indexUp \/ f.middleUp \/ f.ringUp \/ f.pinkyUp)},
        then |-> "BACKSPACE"],
       [when |-> {f \in FingerStates : f.indexUp /\ f.middleUp /\ f.ringUp /\ ~f.pinkyUp},
        then |-> "D"],
       [when |-> {f \in FingerStates : f.indexUp /\ f.middleUp /\ f.ringUp},
        then |-> "C"],
       [when |-> {f \in FingerStates : f.middleUp /\ f.ringUp /\ f.pinkyUp},
        then |-> "F"],
       [when |-> {[indexUp |-> TRUE, middleUp |-> TRUE, ringUp |-> FALSE, pinkyUp |-> FALSE]},
        then |-> "B"],
       [when |-> {[indexUp |-> TRUE, middleUp |-> FALSE, ringUp |-> TRUE, pinkyUp |-> FALSE]},
        then |-> "E"],
       [when |-> {[indexUp |-> FALSE, middleUp |-> TRUE, ringUp |-> TRUE, pinkyUp |-> FALSE]},
        then |-> "G"],
       [when |-> {[indexUp |-> TRUE, middleUp |-> FALSE, ringUp |-> FALSE, pinkyUp |-> FALSE]},
        then |-> "A"],
       [when |-> {[indexUp |-> FALSE, middleUp |-> TRUE, ringUp |-> FALSE, pinkyUp |-> FALSE]},
        then |-> "H"],
       [when |-> {[indexUp |-> FALSE, middleUp |-> FALSE, ringUp |-> TRUE, pinkyUp |-> FALSE]},
        then |-> "I"],
       [when |-> {[indexUp |-> FALSE, middleUp |-> FALSE, ringUp |-> FALSE, pinkyUp |-> TRUE]},
        then |-> "J"] >>

FirstMatch(f) ==
    LET hits == {i \in 1..Len(Rules) : f \in Rules[i].when} IN
    IF hits = {} THEN Null
    ELSE Rules[CHOOSE i \in hits : \A j \in hits : i <= j].then

\* C8: the gesture of a hand frame is the first match of the ordered rule list
\* on the frame's finger state (a finger is up when its tip is above its pip),
\* and NONE when no rule matches; nothing else of the state enters it.
C8_ChainIsFirstMatch ==
    frame = "hand" =>
        /\ fingers = [indexUp  |-> handLandmarks[8] < handLandmarks[6],
                      middleUp |-> handLandmarks[12] < handLandmarks[10],
                      ringUp   |-> handLandmarks[16] < handLandmarks[14],
                      pinkyUp  |-> handLandmarks[20] < handLandmarks[18]]
        /\ gesture = FirstMatch(fingers)

\* Index and pinky up, which no rule matches, has been classified; the tips of
\* the two lowered fingers are level with and below their pips.
C8_Witness ==
    /\ frame = "hand"
    /\ fingers = IndexPinky /\ gesture = Null
    /\ handLandmarks[12] = handLandmarks[10]
    /\ handLandmarks[16] > handLandmarks[14]

-----------------------------------------------------------------------------
(* C9 *)

\* The number of immediately preceding frames, this one included, whose
\* classified gesture is the candidate.
RunOfCandidate ==
    IF frame = "hand" /\ gesture = prevDetectedGesture THEN sameRun ELSE 0

\* The same, counting only frames received after the last emitted action.
RunOfCandidateSinceAction ==
    IF frame = "hand" /\ gesture = prevDetectedGesture THEN Min(sameRun, sinceEmit) ELSE 0

\* C9 (as stated): after every frame the count is the number of immediately
\* preceding frames classified as the candidate, and a hand frame classified
\* differently from the hand frame before it sets the count to 1.
C9_CountIsRunOfCandidate ==
    [][FrameStep =>
          /\ stableCount' = RunOfCandidate'
          /\ (frame = "hand" /\ frame' = "hand" /\ gesture' # gesture) =>
                stableCount' = 1]_vars

\* C9 (amended): after every frame the count is the number of immediately
\* preceding frames classified as the candidate that were received after the
\* last emitted action; a change of classification sets it to 1.
C9_CountIsRunSinceAction ==
    [][FrameStep =>
          /\ stableCount' = RunOfCandidateSinceAction'
          /\ (frame = "hand" /\ frame' = "hand" /\ gesture' # gesture) =>
                stableCount' = 1]_vars

\* The gesture that was emitted is still held: the run of identical frames is
\* longer than the count, which started again after the action.
C9_Witness ==
    /\ actions # <<>>
    /\ frame = "hand" /\ gesture = prevDetectedGesture /\ gesture # Null
    /\ gesture = actions[Len(actions)].action
    /\ stableCount = sinceEmit /\ stableCount >= 2
    /\ sameRun > stableCount

-----------------------------------------------------------------------------
(* C10 *)

\* C10: a hand frame classified as NONE emits nothing and leaves
\* lastActionTime alone; lastActionTime changes only in a frame that emits an
\* action, and becomes that frame's clock reading.
C10_NoneNeverEmits ==
    [][/\ (FrameStep /\ frame' = "hand" /\ gesture' = Null) =>
             /\ ~Emits /\ emitted' = NoAction
             /\ lastActionTime' = lastActionTime
             /\ output' = output
       /\ lastActionTime' # lastActionTime =>
             /\ FrameStep /\ Emits
             /\ emitted' \in Gestures
             /\ lastActionTime' = now']_vars

\* NONE has been stable for REQUIRED_CONSECUTIVE frames and is seen again more
\* than ACTION_COOLDOWN after the last action: nothing is emitted.
C10_Witness ==
    /\ frame = "hand" /\ gesture = Null
    /\ stableCount > REQUIRED_CONSECUTIVE
    /\ actions # <<>>
    /\ now = clock /\ now - lastActionTime > ACTION_COOLDOWN
    /\ emitted = NoAction

-----------------------------------------------------------------------------
(* C11 *)

\* C11 (as stated): between two consecutive emissions of the same gesture
\* there is a frame that is not classified as that gesture: the run of
\* identical frames ending with the second emission starts after the first.
C11_ReentryBetweenEmissions ==
    [][(FrameStep /\ Emits /\ actions # <<>>
          /\ emitted' = actions[Len(actions)].action) =>
              sameRun' <= sinceEmit + 1]_vars

\* C11 (amended): the reset after an emission forces re-accumulation, not
\* re-entry: a gesture emitted again comes after at least
\* REQUIRED_CONSECUTIVE - 1 frames that emitted nothing, and a hand held in the
\* emitted pose ever since fires again on exactly those frames that are at
\* least the REQUIRED_CONSECUTIVE-th after the emission and more than
\* ACTION_COOLDOWN after it.
C11_HeldPoseFiresAfterReaccumulation ==
    [][(FrameStep /\ frame' = "hand" /\ actions # <<>>
          /\ gesture' = actions[Len(actions)].action) =>
              /\ Emits => sinceEmit + 1 >= REQUIRED_CONSECUTIVE
              /\ sameRun' > sinceEmit + 1 =>
                    (Emits <=> /\ sinceEmit + 1 >= REQUIRED_CONSECUTIVE
                               /\ now' - actions[Len(actions)].at > ACTION_COOLDOWN)]_vars

\* A hand held in one pose for eight frames has fired twice.
C11_Witness ==
    /\ Len(actions) = 2
    /\ actions[1].action = actions[2].action
    /\ frame = "hand" /\ gesture = actions[2].action
    /\ sameRun = 2 * REQUIRED_CONSECUTIVE
    /\ sinceEmit = 0

-----------------------------------------------------------------------------
(* C12 *)

\* C12: the clock readings of two consecutive emitted actions differ by at
\* least ACTION_COOLDOWN (the clock of the model never goes back).
C12_EmissionsCooldownApart ==
    \A i \in 1..(Len(actions) - 1) :
        actions[i + 1].at - actions[i].at >= ACTION_COOLDOWN

\* Two different gestures emitted as close together as the model's clock
\* allows, with a no-hand frame after the second.
C12_Witness ==
    /\ Len(actions) = 2
    /\ actions[1].action # actions[2].action
    /\ actions[2].at - actions[1].at = ACTION_COOLDOWN + 100
    /\ frame = "nohand"

-----------------------------------------------------------------------------
(* C13 *)

\* C13: a frame that emits sets lastActionTime to its clock reading, the
\* candidate to null and the count to 0 and emits one action, its gesture;
\* none of the REQUIRED_CONSECUTIVE - 1 frames after it emits.
C13_EmissionResets ==
    [][FrameStep =>
          /\ Emits => /\ lastActionTime' = now' /\ now' = clock
                      /\ prevDetectedGesture' = Null /\ stableCount' = 0
                      /\ actions' = Append(actions, [action |-> gesture', at |-> now'])
                      /\ emitted' = gesture'
          /\ (actions # <<>> /\ sinceEmit < REQUIRED_CONSECUTIVE - 1) => ~Emits]_vars

\* The third frame after an emission, of the emitted gesture and more than
\* ACTION_COOLDOWN later: it has not emitted.
C13_Witness ==
    /\ Len(actions) = 1
    /\ sinceEmit = REQUIRED_CONSECUTIVE - 1
    /\ frame = "hand" /\ gesture = actions[1].action
    /\ stableCount = REQUIRED_CONSECUTIVE - 1
    /\ now = clock /\ now - lastActionTime > ACTION_COOLDOWN
    /\ emitted = NoAction

-----------------------------------------------------------------------------
(* C14 *)

\* C14: no finger state classifies as C, so C is never the frame's gesture,
\* never the candidate and never an emitted action.
C14_CNeverClassified ==
    /\ \A f \in FingerStates : GestureOf(f.indexUp, f.middleUp, f.ringUp, f.pinkyUp) # "C"
    /\ gesture # "C"
    /\ prevDetectedGesture # "C"
    /\ emitted # "C"
    /\ \A i \in 1..Len(actions) : actions[i].action # "C"

\* Index, middle and ring up with the pinky down, held until it emits: the
\* action is D.
C14_Witness ==
    /\ fingers = [indexUp |-> TRUE, middleUp |-> TRUE, ringUp |-> TRUE, pinkyUp |-> FALSE]
    /\ emitted = "D"
    /\ actions = <<[action |-> "D", at |-> now]>>

-----------------------------------------------------------------------------
(* C15 *)

\* The one change an action makes to a text.
EffectOf(a, text) ==
    CASE a = "SPACE" -> text \o <<" ">>
      [] a = "BACKSPACE" -> IF text = <<>> THEN <<>> ELSE SubSeq(text, 1, Len(text) - 1)
      [] OTHER -> text \o <<a>>

RECURSIVE TextAfter(_)
\* The fold of a log of emitted actions over the empty initial text.
TextAfter(log) ==
    IF log = <<>> THEN <<>>
    ELSE EffectOf(log[Len(log)].action, TextAfter(SubSeq(log, 1, Len(log) - 1)))

\* C15: an emitting frame changes the output text by the one effect of its
\* action (SPACE appends a space, BACKSPACE removes the last character or
\* leaves the empty text empty, a letter appends itself), every other frame
\* leaves the text unchanged, and after every frame the text is the fold of
\* the emitted actions over the initial text.
C15_TextIsFoldOfActions ==
    [][FrameStep =>
          /\ output' = IF Emits THEN EffectOf(emitted', output) ELSE output
          /\ output' = TextAfter(actions')]_vars

\* A letter was typed and a BACKSPACE removed it again.
C15_Witness ==
    /\ Len(actions) = 2
    /\ actions[1].action \in Letters
    /\ actions[2].action = "BACKSPACE"
    /\ output = <<>>
    /\ emitted = "BACKSPACE"

-----------------------------------------------------------------------------
(* C16 *)

Max(a, b) == IF a >= b THEN a ELSE b

\* With frames at most MaxGapTicks ticks apart, the time by which a held pose
\* has both rebuilt its count and outlasted the cooldown.
HoldLatency ==
    Max(REQUIRED_CONSECUTIVE * MaxGapTicks * 100, ACTION_COOLDOWN + MaxGapTicks * 100)

\* A frame of the candidate gesture arrives when the count is already at
\* REQUIRED_CONSECUTIVE or more: only the cooldown has been blocking.
BlockedByCooldown ==
    /\ FrameStep /\ frame' = "hand"
    /\ gesture' # Null /\ gesture' = prevDetectedGesture
    /\ stableCount >= REQUIRED_CONSECUTIVE

\* C16: while the cooldown blocks a stable gesture the count is not reset but
\* grows, and the action fires on the first frame of the same gesture at which
\* the cooldown has elapsed; so for a hand held in one pose with a gesture
\* while the clock advances, every emission (and the start) is followed by a
\* further emission, as long as the clock of the model has HoldLatency left.
C16_HeldPoseKeepsFiring ==
    /\ [][BlockedByCooldown =>
            IF now' - lastActionTime > ACTION_COOLDOWN
            THEN Emits /\ emitted' = gesture'
            ELSE /\ ~Emits
                 /\ stableCount' = stableCount + 1
                 /\ prevDetectedGesture' = prevDetectedGesture]_vars
    /\ \A k \in 0..((HoldTicks * 100) \div HoldLatency) :
          (Len(actions) = k /\ lastActionTime + HoldLatency <= HoldTicks * 100)
              ~> (Len(actions) > k)

\* A held pose has fired twice and is blocked by the cooldown again, its count
\* past REQUIRED_CONSECUTIVE.
C16_Witness ==
    /\ Len(actions) = 2
    /\ actions[1].action = actions[2].action
    /\ sameRun > 2 * REQUIRED_CONSECUTIVE
    /\ stableCount > REQUIRED_CONSECUTIVE
    /\ now - lastActionTime <= ACTION_COOLDOWN
    /\ emitted = NoAction

-----------------------------------------------------------------------------
(* C17 *)

\* C17: null standing both for NONE and for the empty candidate changes
\* nothing: after every frame the program's count, its emitted action and its
\* lastActionTime are those of the reference machine, and its candidate is the
\* reference candidate with EmptyCandidate and NoneGesture both read as null.
C17_NullConflationUnobservable ==
    /\ stableCount = refCount
    /\ emitted = refEmitted
    /\ lastActionTime = refLast
    /\ prevDetectedGesture =
          IF refCandidate \in {EmptyCandidate, NoneGesture} THEN Null ELSE refCandidate

\* A NONE frame right after an emission: the program counts it 1 because
\* null === null with the count at 0, the reference machine because NONE is
\* not the empty candidate.
C17_Witness ==
    /\ actions # <<>>
    /\ sinceEmit = 1
    /\ frame = "hand" /\ gesture = Null
    /\ prevDetectedGesture = Null /\ stableCount = 1
    /\ refCandidate = NoneGesture /\ refCount = 1

-----------------------------------------------------------------------------
(* C18 *)

\* C18: the timer callbacks of performAction and the Enter-key handler, run at
\* any point between frames, leave prevDetectedGesture, stableCount and
\* lastActionTime (and the log of emitted actions) as they are, so that in
\* every interleaving the debounce state and the emitted actions are those of
\* the reference machine, which sees only the frames and their clock readings.
C18_OnlyFramesWriteDebounceState ==
    /\ [][(TimerFires \/ EnterKey) =>
            UNCHANGED <<prevDetectedGesture, stableCount, lastActionTime,
                        actions, emitted>>]_vars
    /\ [](/\ stableCount = refCount
          /\ lastActionTime = refLast
          /\ emitted = refEmitted)

\* Between the third and the fourth frame of a second action the status
\* callback of the first has run and Enter has been pressed: the count is
\* still 3.
C18_Witness ==
    /\ Len(actions) = 1
    /\ stableCount = REQUIRED_CONSECUTIVE - 1
    /\ sinceEmit = REQUIRED_CONSECUTIVE - 1
    /\ \A tm \in timers : tm.callback # "status"
    /\ ui.status = "Hand detected"
    /\ Len(output) > 0 /\ output[Len(output)] = "\n"

-----------------------------------------------------------------------------
(* C19 *)

\* C19: stableCount is never negative; when it is 0 the candidate is null; and
\* after a hand frame that emitted nothing the count is at least 1 and the
\* candidate is that frame's gesture.
C19_CountAndCandidateAgree ==
    /\ stableCount >= 0
    /\ stableCount = 0 => prevDetectedGesture = Null
    /\ (frame = "hand" /\ emitted = NoAction) =>
          (stableCount >= 1 /\ prevDetectedGesture = gesture)

\* After an emission and two NONE frames the candidate is null with the count
\* at 2: a null candidate does not mean a count of 0.
C19_Witness ==
    /\ actions # <<>>
    /\ sinceEmit = 2
    /\ frame = "hand" /\ gesture = Null /\ emitted = NoAction
    /\ prevDetectedGesture = Null
    /\ stableCount = 2

====
